---- MODULE Spec2Model ----
(***************************************************************************)
(* A model of personal-diary-tui: the entry store (src/src/diary_state.rs, *)
(* src/src/diary_entry.rs), its persisted blob diary_entries.json, and the *)
(* session loop of src/src/main.rs with the screens of src/src/ui.rs that  *)
(* feed the store.                                                         *)
(*                                                                         *)
(* Text is the sequence of a String's bytes, each a string: an ASCII        *)
(* character is its one byte, the two-byte character U+00E9 is the bytes   *)
(* "C3" and "A9".  A DateTime<Local> is the                                *)
(* instant it denotes (a natural number): chrono compares two DateTime     *)
(* values by their instant alone.  usize is not given its width: next_id   *)
(* only grows by one per add_entry and is capped by MaxId in the guards.   *)
(***************************************************************************)
EXTENDS Integers, Sequences, FiniteSets, TLC

VARIABLES
    entries,    \* DiaryState.entries of the running process
    next_id,    \* DiaryState.next_id of the running process
    file,       \* diary_entries.json: [exists, content]
    pc,         \* "init"; "running" (in main's loop); "quit"; "panicked"; "failed"
                \* (main returned an error from the loop); "aborted" (at startup)
    platform,   \* the OS the process runs on: "unix" or "windows"
    lastOp,     \* the last call made: [op, id, found, save, result, from]
    query,      \* the query of the last search_entries call
    results,    \* what the last get_entries / search_entries call returned
    loaded,     \* what the last load_from_file call returned: [ok, state], and
                \* whether it was called right after a save_to_file that succeeded
    issued,     \* history: the entries add_entry has returned, as <<id, timestamp>>
    editor      \* get_new_entry and edit_entry, key by key: [mode, content,
                \* cursor_position, key, before, tags, tag_list]; mode is
                \* "idle" (not entered), "content" (in get_new_entry's content
                \* loop), "edit" (in edit_entry's content loop), "left" (Esc:
                \* in the tags loop), "done" (Esc: the entry was returned),
                \* "failed" (the assistant's error was returned) or
                \* "panicked"; key is the key handled last and before the
                \* cursor_position it met; tags is the raw tag string and
                \* tag_list the tags of the entry returned

vars == <<entries, next_id, file, pc, platform, lastOp, query, results, loaded, issued,
          editor>>

(***************************************************************************)
(* Bounds and input pools                                                  *)
(***************************************************************************)
\* add_entry is not called once next_id has reached MaxId
MaxId == 3
\* no key is typed that would make the new entry's content longer, in bytes
MaxLen == 5
\* no key is typed that would make the raw tag string longer, in bytes
MaxTagLen == 4
\* instants Local::now() may return
Times == {1, 2}

Newline == "\n"
\* the characters KeyCode::Char delivers; Enter, not a Char, is what puts a
\* Newline into a text
Chars == {"a", "A", "b", "B", ",", " ", "*", "U+00E9"}

\* the contents and tag sequences entries are made of
Contents == {<<>>, <<"a", Newline>>}
TagLists == {<< <<>> >>, << <<"B">>, <<>> >>}

\* what callers of the store pass: ids, entry payloads, queries
Ids == 0..MaxId
Payloads ==
    {[content |-> <<"A", "b">>, tags |-> << <<>> >>, now |-> 1],
     [content |-> <<"a", Newline>>, tags |-> << <<>> >>, now |-> 2],
     [content |-> <<>>, tags |-> << <<"B">>, <<>> >>, now |-> 2]}
Queries == {<<>>, <<"a">>, <<"B">>, <<"b", "b">>}

(***************************************************************************)
(* Text helpers                                                            *)
(***************************************************************************)
Range(s) == {s[i] : i \in DOMAIN s}

\* char::encode_utf8: the bytes of a character
Utf8(c) == IF c = "U+00E9" THEN <<"C3", "A9">> ELSE <<c>>

\* whether a byte continues a character begun before it
IsContinuation(b) == b = "A9"

\* str::is_char_boundary(idx), idx counted from 0
is_char_boundary(s, idx) ==
    \/ idx = 0
    \/ idx = Len(s)
    \/ idx > 0 /\ idx < Len(s) /\ ~IsContinuation(s[idx + 1])

\* the number of bytes of the character that starts at idx (counted from 0)
WidthAt(s, idx) == IF s[idx + 1] = "C3" THEN 2 ELSE 1

\* char::to_lowercase on the characters of Chars
LowerChar(c) == IF c = "A" THEN "a" ELSE IF c = "B" THEN "b" ELSE c

\* str::to_lowercase
to_lowercase(s) == [i \in 1..Len(s) |-> LowerChar(s[i])]

\* str::starts_with
StartsWith(s, p) == Len(p) <= Len(s) /\ SubSeq(s, 1, Len(p)) = p

\* str::contains: scan the haystack from the left for the first match
RECURSIVE contains(_, _)
contains(hay, needle) ==
    IF Len(needle) = 0 THEN TRUE
    ELSE IF Len(hay) < Len(needle) THEN FALSE
    ELSE IF StartsWith(hay, needle) THEN TRUE
    ELSE contains(Tail(hay), needle)

\* char::is_whitespace on the characters of Chars
IsWhitespace(c) == c \in {" ", Newline}

\* str::trim: drop leading and trailing whitespace
RECURSIVE TrimStart(_)
TrimStart(s) ==
    IF Len(s) > 0 /\ IsWhitespace(s[1]) THEN TrimStart(Tail(s)) ELSE s

RECURSIVE TrimEnd(_)
TrimEnd(s) ==
    IF Len(s) > 0 /\ IsWhitespace(s[Len(s)])
    THEN TrimEnd(SubSeq(s, 1, Len(s) - 1)) ELSE s

trim(s) == TrimEnd(TrimStart(s))

\* str::split(','): the pieces between commas, empty pieces kept
RECURSIVE SplitFrom(_, _, _)
SplitFrom(s, i, piece) ==
    IF i > Len(s) THEN <<piece>>
    ELSE IF s[i] = "," THEN <<piece>> \o SplitFrom(s, i + 1, <<>>)
    ELSE SplitFrom(s, i + 1, Append(piece, s[i]))

split(s) == SplitFrom(s, 1, <<>>)

\* tags.split(',').map(|s| s.trim().to_string()).collect()
tag_list_drop_empty(raw) ==
    SelectSeq([i \in 1..Len(split(raw)) |-> trim(split(raw)[i])], LAMBDA tag : tag # <<>>)

tag_list(raw) == LET p == split(raw) IN [i \in 1..Len(p) |-> trim(p[i])]

\* [String]::join(", ")
RECURSIVE join_spaces(_)
join_spaces(ts) ==
    IF Len(ts) = 0 THEN <<>>
    ELSE IF Len(ts) = 1 THEN ts[1]
    ELSE ts[1] \o <<" ">> \o join_spaces(Tail(ts))

RECURSIVE join(_)
join(ts) ==
    IF Len(ts) = 0 THEN <<>>
    ELSE IF Len(ts) = 1 THEN ts[1]
    ELSE ts[1] \o <<",", " ">> \o join(Tail(ts))

(***************************************************************************)
(* DiaryEntry and DiaryState                                               *)
(***************************************************************************)
\* DiaryEntry::new; now is what Local::now() returns
DiaryEntry_new(id, content, tags, now) ==
    [id |-> id, timestamp |-> now, content |-> content, tags |-> tags]

\* DiaryState::new
DiaryState_new == [entries |-> <<>>, next_id |-> 1]

\* the running process's DiaryState
State == [entries |-> entries, next_id |-> next_id]

\* the in-memory part of add_entry: the store's id replaces the caller's
add_entry_reuse(s, entry) ==
    [entries |-> Append(s.entries, [entry EXCEPT !.id = Len(s.entries) + 1]),
     next_id |-> Len(s.entries) + 2]

add_entry_keep_id(s, entry) ==
    [entries |-> Append(s.entries, entry), next_id |-> s.next_id + 1]

add_entry_front(s, entry) ==
    [entries |-> <<[entry EXCEPT !.id = s.next_id]>> \o s.entries,
     next_id |-> s.next_id + 1]

add_entry(s, entry) ==
    [entries |-> Append(s.entries, [entry EXCEPT !.id = s.next_id]),
     next_id |-> s.next_id + 1]

\* entries.iter_mut().find(|e| e.id == id): the first position holding id, 0 if none
find(es, id) ==
    IF \E i \in DOMAIN es : es[i].id = id
    THEN CHOOSE i \in DOMAIN es :
            es[i].id = id /\ \A j \in 1..(i - 1) : es[j].id # id
    ELSE 0

\* the in-memory part of update_entry: *entry = updated_entry when found
update_entry_upsert(s, updated) ==
    IF find(s.entries, updated.id) # 0
    THEN [s EXCEPT !.entries[find(s.entries, updated.id)] = updated]
    ELSE [s EXCEPT !.entries = Append(s.entries, updated)]

update_entry_to_back(s, updated) ==
    IF find(s.entries, updated.id) # 0
    THEN [s EXCEPT !.entries =
              Append(SelectSeq(s.entries, LAMBDA e : e.id # updated.id), updated)]
    ELSE s

update_entry(s, updated) ==
    IF find(s.entries, updated.id) # 0
    THEN [s EXCEPT !.entries[find(s.entries, updated.id)] = updated]
    ELSE s

\* the in-memory part of delete_entry: entries.retain(|e| e.id != id)
delete_entry_first(s, id) ==
    IF s.entries = <<>> THEN s ELSE [s EXCEPT !.entries = Tail(s.entries)]

delete_entry(s, id) ==
    [s EXCEPT !.entries = SelectSeq(s.entries, LAMBDA e : e.id # id)]

\* get_entries
get_entries(s) == s.entries

\* the filter of search_entries
Matches_content_only(e, q) ==
    contains(to_lowercase(e.content), to_lowercase(q))

Matches(e, q) ==
    \/ contains(to_lowercase(e.content), to_lowercase(q))
    \/ \E i \in DOMAIN e.tags : contains(to_lowercase(e.tags[i]), to_lowercase(q))

\* search_entries
search_entries(s, q) == SelectSeq(s.entries, LAMBDA e : Matches(e, q))

(***************************************************************************)
(* The persisted blob: serde_json text of DiaryState                       *)
(*                                                                         *)
(* A JSON document is kept as its tree of tokens; a string token holds the *)
(* text between its quotes, escapes included.                              *)
(***************************************************************************)
JNum(n) == <<"num", n>>
JStr(body) == <<"str", body>>
JArr(items) == <<"arr", items>>
JObj(fields) == <<"obj", fields>>

\* serde_json's string escaping of one character
EscapeChar_raw(c) == <<c>>

EscapeChar(c) ==
    IF c = Newline THEN <<"\\", "n">>
    ELSE IF c = "\\" THEN <<"\\", "\\">>
    ELSE IF c = "\"" THEN <<"\\", "\"">>
    ELSE <<c>>

RECURSIVE Escape(_)
Escape(s) == IF s = <<>> THEN <<>> ELSE EscapeChar(Head(s)) \o Escape(Tail(s))

\* serde_json's reading of a string body: [ok, value]
RECURSIVE Unescape(_)
Unescape(b) ==
    IF b = <<>> THEN [ok |-> TRUE, value |-> <<>>]
    ELSE IF Head(b) = "\\" THEN
        IF Len(b) < 2 \/ b[2] \notin {"n", "\\", "\""}
        THEN [ok |-> FALSE, value |-> <<>>]
        ELSE LET rest == Unescape(SubSeq(b, 3, Len(b)))
                 c == IF b[2] = "n" THEN Newline ELSE b[2]
             IN  [ok |-> rest.ok, value |-> <<c>> \o rest.value]
    ELSE IF Head(b) \in {Newline, "\""} THEN [ok |-> FALSE, value |-> <<>>]
    ELSE LET rest == Unescape(Tail(b))
         IN  [ok |-> rest.ok, value |-> <<Head(b)>> \o rest.value]

Digit(d) == <<"0", "1", "2", "3", "4", "5", "6", "7", "8", "9">>[d + 1]
DigitValue(c) == CHOOSE d \in 0..9 : Digit(d) = c
IsDigit(c) == \E d \in 0..9 : Digit(d) = c

\* chrono's text of a DateTime: here the decimal text of the instant
RECURSIVE DateTimeToText(_)
DateTimeToText(t) ==
    IF t < 10 THEN <<Digit(t)>> ELSE Append(DateTimeToText(t \div 10), Digit(t % 10))

\* chrono's reading of that text: [ok, value]
RECURSIVE TextToNumber(_)
TextToNumber(s) ==
    IF Len(s) = 1 THEN DigitValue(s[1])
    ELSE 10 * TextToNumber(SubSeq(s, 1, Len(s) - 1)) + DigitValue(s[Len(s)])

TextToDateTime(s) ==
    IF s # <<>> /\ \A i \in DOMAIN s : IsDigit(s[i])
    THEN [ok |-> TRUE, value |-> TextToNumber(s)]
    ELSE [ok |-> FALSE, value |-> 0]

\* #[derive(Serialize)] of DiaryEntry
SerializeEntry(e) ==
    JObj(<< <<"id", JNum(e.id)>>,
            <<"timestamp", JStr(DateTimeToText(e.timestamp))>>,
            <<"content", JStr(Escape(e.content))>>,
            <<"tags", JArr([i \in 1..Len(e.tags) |-> JStr(Escape(e.tags[i]))])>> >>)

\* #[derive(Serialize)] of DiaryState: serde_json::to_string(&self)
Serialize(s) ==
    JObj(<< <<"entries", JArr([i \in 1..Len(s.entries) |-> SerializeEntry(s.entries[i])])>>,
            <<"next_id", JNum(s.next_id)>> >>)

\* the value of field key of a JSON object holding it
Field(obj, key) == obj[2][CHOOSE i \in DOMAIN obj[2] : obj[2][i][1] = key][2]
HasFields(v, keys) ==
    /\ v[1] = "obj"
    /\ \A k \in keys : \E i \in DOMAIN v[2] : v[2][i][1] = k
IsStr(v) == v[1] = "str" /\ Unescape(v[2]).ok
IsNum(v) == v[1] = "num"

\* #[derive(Deserialize)] of DiaryEntry: does the token tree read as an entry
EntryReads(v) ==
    /\ HasFields(v, {"id", "timestamp", "content", "tags"})
    /\ IsNum(Field(v, "id"))
    /\ IsStr(Field(v, "timestamp"))
    /\ TextToDateTime(Unescape(Field(v, "timestamp")[2]).value).ok
    /\ IsStr(Field(v, "content"))
    /\ Field(v, "tags")[1] = "arr"
    /\ \A i \in DOMAIN Field(v, "tags")[2] : IsStr(Field(v, "tags")[2][i])

DeserializeEntry(v) ==
    [id |-> Field(v, "id")[2],
     timestamp |-> TextToDateTime(Unescape(Field(v, "timestamp")[2]).value).value,
     content |-> Unescape(Field(v, "content")[2]).value,
     tags |-> [i \in 1..Len(Field(v, "tags")[2]) |->
                  Unescape(Field(v, "tags")[2][i][2]).value]]

\* serde_json::from_str::<DiaryState>: [ok, state]; content is what the file holds
Deserialize(content) ==
    IF /\ Len(content) = 1
       /\ HasFields(content[1], {"entries", "next_id"})
       /\ Field(content[1], "entries")[1] = "arr"
       /\ \A i \in DOMAIN Field(content[1], "entries")[2] :
              EntryReads(Field(content[1], "entries")[2][i])
       /\ IsNum(Field(content[1], "next_id"))
    THEN [ok |-> TRUE,
          state |-> [entries |-> [i \in 1..Len(Field(content[1], "entries")[2]) |->
                                    DeserializeEntry(Field(content[1], "entries")[2][i])],
                     next_id |-> Field(content[1], "next_id")[2]]]
    ELSE [ok |-> FALSE, state |-> DiaryState_new]

\* no file at diary_entries.json
NoFile == [exists |-> FALSE, content |-> <<>>]

\* how a write of the blob can end
SaveOutcomes == {"ok", "create_failed", "write_failed"}

\* save_to_file: fs::write creates or truncates the file, then writes the text.
\* [ok, file]: a failed create leaves the file as it was, a failed write leaves
\* a file that holds less than the document
save_to_file_skip(s, f, outcome) == [ok |-> outcome = "ok", file |-> f]

save_to_file(s, f, outcome) ==
    IF outcome = "ok"
    THEN [ok |-> TRUE, file |-> [exists |-> TRUE, content |-> <<Serialize(s)>>]]
    ELSE IF outcome = "create_failed"
    THEN [ok |-> FALSE, file |-> f]
    ELSE [ok |-> FALSE, file |-> [exists |-> TRUE, content |-> <<>>]]

\* An error's text (its Display) is a sequence of phrases, each standing for
\* its characters.
\* the text of an OS error on this platform (std::io::Error's Display)
OsErrorText(os, kind) ==
    IF kind = "NotFound"
    THEN IF os = "unix" THEN <<"No such file or directory", " (os error 2)">>
         ELSE <<"The system cannot find the file specified.", " (os error 2)">>
    ELSE IF os = "unix" THEN <<"Permission denied", " (os error 13)">>
         ELSE <<"Access is denied.", " (os error 5)">>

\* the text of serde_json's error for a document that does not read as a
\* DiaryState: serde names the value it met where it expected another type,
\* a string by its content
DeserializeErrorText(content) ==
    IF Len(content) = 0 THEN <<"EOF while parsing a value">>
    ELSE IF /\ HasFields(content[1], {"entries", "next_id"})
            /\ Field(content[1], "next_id")[1] = "str"
    THEN <<"invalid type: string \"">> \o Field(content[1], "next_id")[2]
             \o <<"\", expected usize">>
    ELSE <<"invalid type or missing field">>

\* load_from_file: [ok, state, error]; readable is whether fs::read_to_string
\* of an existing file succeeds
load_from_file(f, readable, os) ==
    IF ~f.exists
    THEN [ok |-> FALSE, state |-> DiaryState_new, error |-> OsErrorText(os, "NotFound")]
    ELSE IF ~readable
    THEN [ok |-> FALSE, state |-> DiaryState_new, error |-> OsErrorText(os, "Other")]
    ELSE IF Deserialize(f.content).ok
    THEN [ok |-> TRUE, state |-> Deserialize(f.content).state, error |-> <<>>]
    ELSE [ok |-> FALSE, state |-> DiaryState_new,
          error |-> DeserializeErrorText(f.content)]

(***************************************************************************)
(* The screens of ui.rs, as functions of the keys they read                *)
(*                                                                         *)
(* A key is a string: a member of Chars for KeyCode::Char(c), else the     *)
(* name of the KeyCode ("Other" for any key no screen handles).  A screen  *)
(* reads keys until the one that leaves it; done says the keys given       *)
(* reached that key.                                                       *)
(***************************************************************************)
\* String::pop: the last character goes, with all its bytes
pop(s) ==
    IF s = <<>> THEN s
    ELSE IF IsContinuation(s[Len(s)]) THEN SubSeq(s, 1, Len(s) - 2)
    ELSE SubSeq(s, 1, Len(s) - 1)

\* String::push(c)
push(s, c) == s \o Utf8(c)

\* String::insert(idx, c) and String::remove(idx), idx counted from 0 in
\* bytes; both panic when idx is not on a character boundary (the callers
\* ask is_char_boundary first)
insert(s, idx, c) == SubSeq(s, 1, idx) \o Utf8(c) \o SubSeq(s, idx + 1, Len(s))
remove(s, idx) == SubSeq(s, 1, idx) \o SubSeq(s, idx + WidthAt(s, idx) + 1, Len(s))

\* str::rfind(c) and str::find(c): the position counted from 0, -1 for None
rfind(s, c) ==
    IF \E i \in DOMAIN s : s[i] = c
    THEN (CHOOSE i \in DOMAIN s : s[i] = c /\ \A j \in (i + 1)..Len(s) : s[j] # c) - 1
    ELSE -1

str_find(s, c) ==
    IF \E i \in DOMAIN s : s[i] = c
    THEN (CHOOSE i \in DOMAIN s : s[i] = c /\ \A j \in 1..(i - 1) : s[j] # c) - 1
    ELSE -1

\* usize::saturating_sub(1)
saturating_sub1(n) == IF n > 0 THEN n - 1 ELSE 0

\* get_new_entry, KeyCode::Up
move_up(content, cursor) ==
    LET current_line_start ==
            IF rfind(SubSeq(content, 1, cursor), Newline) >= 0
            THEN rfind(SubSeq(content, 1, cursor), Newline) + 1 ELSE 0
        prev_line_start ==
            rfind(SubSeq(content, 1, saturating_sub1(current_line_start)), Newline)
        prev_line_length == current_line_start - prev_line_start - 1
        current_column == cursor - current_line_start
    IN  IF prev_line_start >= 0
        THEN prev_line_start + 1 +
             (IF current_column < prev_line_length THEN current_column
              ELSE prev_line_length)
        ELSE cursor

\* get_new_entry, KeyCode::Down
move_down_unclamped(content, cursor) ==
    LET next_line_start == str_find(SubSeq(content, cursor + 1, Len(content)), Newline)
        current_line_start ==
            IF rfind(SubSeq(content, 1, cursor), Newline) >= 0
            THEN rfind(SubSeq(content, 1, cursor), Newline) + 1 ELSE 0
    IN  IF next_line_start >= 0
        THEN cursor + next_line_start + 1 + (cursor - current_line_start)
        ELSE cursor

move_down(content, cursor) ==
    LET next_line_start == str_find(SubSeq(content, cursor + 1, Len(content)), Newline)
        current_line_start ==
            IF rfind(SubSeq(content, 1, cursor), Newline) >= 0
            THEN rfind(SubSeq(content, 1, cursor), Newline) + 1 ELSE 0
        current_column == cursor - current_line_start
        from == cursor + next_line_start + 1
        next_line_end ==
            IF str_find(SubSeq(content, from + 1, Len(content)), Newline) >= 0
            THEN from + str_find(SubSeq(content, from + 1, Len(content)), Newline)
            ELSE Len(content)
        next_line_length == next_line_end - from
    IN  IF next_line_start >= 0
        THEN from + (IF current_column < next_line_length THEN current_column
                     ELSE next_line_length)
        ELSE cursor

\* get_new_entry, KeyCode::Left and KeyCode::Right
move_left_unguarded(content, cursor) == cursor - 1

move_left(content, cursor) == IF cursor > 0 THEN cursor - 1 ELSE cursor

move_right_unguarded(content, cursor) == cursor + 1

move_right(content, cursor) == IF cursor < Len(content) THEN cursor + 1 ELSE cursor

\* get_new_entry, KeyCode::Char('*') once get_ai_response has returned r:
\* content.push_str(&ai_response); cursor_position = content.len()
push_ai_response_at_cursor(buf, r) ==
    [content |-> SubSeq(buf.content, 1, buf.cursor_position) \o r
                     \o SubSeq(buf.content, buf.cursor_position + 1, Len(buf.content)),
     cursor_position |-> buf.cursor_position + Len(r)]

push_ai_response(buf, r) ==
    [content |-> buf.content \o r, cursor_position |-> Len(buf.content \o r)]

\* get_new_entry: whether the handler of a key panics, on an insert, a remove
\* or a slice at a cursor_position that is not a character boundary
key_panics(buf, key) ==
    LET content == buf.content
        cursor == buf.cursor_position
    IN  IF key \in Chars \/ key = "Enter" THEN ~is_char_boundary(content, cursor)
        ELSE IF key = "Backspace"
        THEN cursor > 0 /\ ~is_char_boundary(content, cursor - 1)
        ELSE IF key = "Delete"
        THEN cursor < Len(content) /\ ~is_char_boundary(content, cursor)
        ELSE IF key \in {"Up", "Down"} THEN ~is_char_boundary(content, cursor)
        ELSE FALSE

\* get_new_entry's draw: content_clone.insert(cursor_position, '|') when the
\* cursor is shown
draw_panics(buf, cursor_visible) ==
    cursor_visible /\ ~is_char_boundary(buf.content, buf.cursor_position)

\* get_new_entry: one key of the content loop other than Esc and '*', when
\* its handler does not panic; buf is [content, cursor_position]
new_entry_key(buf, key) ==
    LET content == buf.content
        cursor == buf.cursor_position
    IN  IF key \in Chars THEN
            [content |-> insert(content, cursor, key), cursor_position |-> cursor + 1]
        ELSE IF key = "Backspace" THEN
            IF cursor > 0
            THEN [content |-> remove(content, cursor - 1), cursor_position |-> cursor - 1]
            ELSE buf
        ELSE IF key = "Delete" THEN
            IF cursor < Len(content)
            THEN [buf EXCEPT !.content = remove(content, cursor)]
            ELSE buf
        ELSE IF key = "Left" THEN
            [buf EXCEPT !.cursor_position = move_left(content, cursor)]
        ELSE IF key = "Right" THEN
            [buf EXCEPT !.cursor_position = move_right(content, cursor)]
        ELSE IF key = "Up" THEN [buf EXCEPT !.cursor_position = move_up(content, cursor)]
        ELSE IF key = "Down" THEN
            [buf EXCEPT !.cursor_position = move_down(content, cursor)]
        ELSE IF key = "Enter" THEN
            [content |-> insert(content, cursor, Newline), cursor_position |-> cursor + 1]
        ELSE buf

\* get_ai_prompt: the keys left once the prompt's Enter was read; <<>> when
\* the keys end before it
RECURSIVE after_ai_prompt(_)
after_ai_prompt(keys) ==
    IF keys = <<>> THEN <<>>
    ELSE IF Head(keys) = "Enter" THEN Tail(keys)
    ELSE after_ai_prompt(Tail(keys))

\* get_new_entry, the content loop: [done, failed, panic, content]; ai is
\* what get_ai_response returns, [ok, text]; cursor_visible is whether the
\* draws of this session show the cursor
RECURSIVE new_entry_content(_, _, _, _)
new_entry_content(buf, keys, ai, cursor_visible) ==
    IF keys = <<>>
    THEN [done |-> FALSE, failed |-> FALSE, panic |-> FALSE, content |-> buf.content]
    ELSE IF draw_panics(buf, cursor_visible)
    THEN [done |-> TRUE, failed |-> FALSE, panic |-> TRUE, content |-> buf.content]
    ELSE IF Head(keys) = "Esc"
    THEN [done |-> TRUE, failed |-> FALSE, panic |-> FALSE, content |-> buf.content]
    ELSE IF Head(keys) = "*" THEN
        IF "Enter" \notin Range(Tail(keys))
        THEN [done |-> FALSE, failed |-> FALSE, panic |-> FALSE, content |-> buf.content]
        ELSE IF ~ai.ok
        THEN [done |-> TRUE, failed |-> TRUE, panic |-> FALSE, content |-> buf.content]
        ELSE new_entry_content(push_ai_response(buf, ai.text),
                               after_ai_prompt(Tail(keys)), ai, cursor_visible)
    ELSE IF key_panics(buf, Head(keys))
    THEN [done |-> TRUE, failed |-> FALSE, panic |-> TRUE, content |-> buf.content]
    ELSE new_entry_content(new_entry_key(buf, Head(keys)), Tail(keys), ai, cursor_visible)

\* get_new_entry, the content loop over keys other than Esc and '*', between
\* two draws: [panic, content, cursor_position]
RECURSIVE type_keys(_, _)
type_keys(buf, keys) ==
    IF keys = <<>>
    THEN [panic |-> FALSE, content |-> buf.content, cursor_position |-> buf.cursor_position]
    ELSE IF key_panics(buf, Head(keys))
    THEN [panic |-> TRUE, content |-> buf.content, cursor_position |-> buf.cursor_position]
    ELSE type_keys(new_entry_key(buf, Head(keys)), Tail(keys))

\* the tags loop of get_new_entry and of edit_entry: [done, tags]
RECURSIVE tags_loop(_, _)
tags_loop(tags, keys) ==
    IF keys = <<>> THEN [done |-> FALSE, tags |-> tags]
    ELSE IF Head(keys) = "Esc" THEN [done |-> TRUE, tags |-> tags]
    ELSE IF Head(keys) \in Chars THEN tags_loop(push(tags, Head(keys)), Tail(keys))
    ELSE IF Head(keys) = "Backspace" THEN tags_loop(pop(tags), Tail(keys))
    ELSE tags_loop(tags, Tail(keys))

\* get_new_entry: [done, failed, panic, entry]; cursor_position starts at 0
get_new_entry(content_keys, tag_keys, ai, cursor_visible, now) ==
    LET c == new_entry_content([content |-> <<>>, cursor_position |-> 0], content_keys, ai,
                               cursor_visible)
        t == tags_loop(<<>>, tag_keys)
    IN  [done |-> c.done /\ (c.failed \/ c.panic \/ t.done),
         failed |-> c.failed,
         panic |-> c.panic,
         entry |-> DiaryEntry_new(0, c.content, tag_list(t.tags), now)]

\* edit_entry: one key of the content loop other than Esc
edit_entry_key(content, key) ==
    IF key \in Chars THEN push(content, key)
    ELSE IF key = "Backspace" THEN pop(content)
    ELSE IF key = "Enter" THEN push(content, Newline)
    ELSE content

\* edit_entry, the content loop: [done, content]
RECURSIVE edit_content(_, _)
edit_content(content, keys) ==
    IF keys = <<>> THEN [done |-> FALSE, content |-> content]
    ELSE IF Head(keys) = "Esc" THEN [done |-> TRUE, content |-> content]
    ELSE edit_content(edit_entry_key(content, Head(keys)), Tail(keys))

\* edit_entry: [done, entry]
edit_entry_restamp(entry, content_keys, tag_keys) ==
    [done |-> edit_content(entry.content, content_keys).done
              /\ tags_loop(join(entry.tags), tag_keys).done,
     entry |-> [id |-> entry.id,
                timestamp |-> CHOOSE now \in Times : now # entry.timestamp,
                content |-> edit_content(entry.content, content_keys).content,
                tags |-> tag_list(tags_loop(join(entry.tags), tag_keys).tags)]]

edit_entry(entry, content_keys, tag_keys) ==
    [done |-> edit_content(entry.content, content_keys).done
              /\ tags_loop(join(entry.tags), tag_keys).done,
     entry |-> [id |-> entry.id,
                timestamp |-> entry.timestamp,
                content |-> edit_content(entry.content, content_keys).content,
                tags |-> tag_list(tags_loop(join(entry.tags), tag_keys).tags)]]

\* KeyCode::Down of a list screen of n rows: [panic, index].  With n = 0 the
\* subtraction n - 1 overflows: a build with overflow checks panics, one
\* without wraps to usize::MAX and the index grows
list_down(selected_index, n, checked) ==
    IF n = 0
    THEN IF checked THEN [panic |-> TRUE, index |-> selected_index]
         ELSE [panic |-> FALSE, index |-> selected_index + 1]
    ELSE [panic |-> FALSE,
          index |-> IF selected_index < n - 1 THEN selected_index + 1 ELSE selected_index]

\* select_entry_to_edit, select_entry_to_delete: [done, panic, some, index];
\* Enter returns entries[selected_index], Esc returns None
RECURSIVE select_entry(_, _, _, _)
select_entry(n, selected_index, keys, checked) ==
    IF keys = <<>>
    THEN [done |-> FALSE, panic |-> FALSE, some |-> FALSE, index |-> selected_index]
    ELSE IF Head(keys) = "Up"
    THEN select_entry(n, saturating_sub1(selected_index), Tail(keys), checked)
    ELSE IF Head(keys) = "Down" THEN
        IF list_down(selected_index, n, checked).panic
        THEN [done |-> TRUE, panic |-> TRUE, some |-> FALSE, index |-> selected_index]
        ELSE select_entry(n, list_down(selected_index, n, checked).index, Tail(keys), checked)
    ELSE IF Head(keys) = "Enter"
    THEN [done |-> TRUE, panic |-> selected_index >= n,
          some |-> selected_index < n, index |-> selected_index]
    ELSE IF Head(keys) = "Esc"
    THEN [done |-> TRUE, panic |-> FALSE, some |-> FALSE, index |-> selected_index]
    ELSE select_entry(n, selected_index, Tail(keys), checked)

\* view_entries, display_search_results: [done, panic]; Enter opens
\* view_full_entry, which the next key closes; Esc leaves
RECURSIVE browse(_, _, _, _)
browse(n, selected_index, keys, checked) ==
    IF keys = <<>> THEN [done |-> FALSE, panic |-> FALSE]
    ELSE IF Head(keys) = "Up"
    THEN browse(n, saturating_sub1(selected_index), Tail(keys), checked)
    ELSE IF Head(keys) = "Down" THEN
        IF list_down(selected_index, n, checked).panic
        THEN [done |-> TRUE, panic |-> TRUE]
        ELSE browse(n, list_down(selected_index, n, checked).index, Tail(keys), checked)
    ELSE IF Head(keys) = "Enter" THEN
        IF selected_index >= n THEN [done |-> TRUE, panic |-> TRUE]
        ELSE IF Tail(keys) = <<>> THEN [done |-> FALSE, panic |-> FALSE]
        ELSE browse(n, selected_index, Tail(Tail(keys)), checked)
    ELSE IF Head(keys) = "Esc" THEN [done |-> TRUE, panic |-> FALSE]
    ELSE browse(n, selected_index, Tail(keys), checked)

\* get_search_query: [done, query]; Enter returns what was typed, Esc the
\* empty string
RECURSIVE get_search_query_keep(_, _)
get_search_query_keep(q, keys) ==
    IF keys = <<>> THEN [done |-> FALSE, query |-> q]
    ELSE IF Head(keys) \in {"Enter", "Esc"} THEN [done |-> TRUE, query |-> q]
    ELSE IF Head(keys) \in Chars THEN get_search_query_keep(push(q, Head(keys)), Tail(keys))
    ELSE IF Head(keys) = "Backspace" THEN get_search_query_keep(pop(q), Tail(keys))
    ELSE get_search_query_keep(q, Tail(keys))

RECURSIVE get_search_query(_, _)
get_search_query(q, keys) ==
    IF keys = <<>> THEN [done |-> FALSE, query |-> q]
    ELSE IF Head(keys) = "Enter" THEN [done |-> TRUE, query |-> q]
    ELSE IF Head(keys) = "Esc" THEN [done |-> TRUE, query |-> <<>>]
    ELSE IF Head(keys) \in Chars THEN get_search_query(push(q, Head(keys)), Tail(keys))
    ELSE IF Head(keys) = "Backspace" THEN get_search_query(pop(q), Tail(keys))
    ELSE get_search_query(q, Tail(keys))

(***************************************************************************)
(* Calls of the store                                                      *)
(***************************************************************************)
\* a call as lastOp records it; from is where the process was when it was made
Op(op, id, found, save, result) ==
    [op |-> op, id |-> id, found |-> found, save |-> save, result |-> result,
     from |-> pc]

Dropped == [ok |-> FALSE, state |-> DiaryState_new, saved |-> FALSE]

\* get_new_entry has not been entered
Idle == [mode |-> "idle", content |-> <<>>, cursor_position |-> 0, key |-> "none",
         before |-> 0, tags |-> <<>>, tag_list |-> <<>>]

\* what may be at diary_entries.json when the program is first started:
\* nothing, an empty file, or a document someone edited so that next_id is a
\* string
EditedFile ==
    [exists |-> TRUE,
     content |-> << JObj(<< <<"entries", JArr(<<>>)>>,
                            <<"next_id", JStr(<<"No such file or directory">>)>> >>) >>]
FilesFound == {NoFile, [exists |-> TRUE, content |-> <<>>], EditedFile}
\* the platforms each is tried on: the text of a parse error is the same on all
PlatformsOf(f) == IF f = NoFile THEN {"unix", "windows"} ELSE {"unix"}

Init ==
    /\ entries = <<>>
    /\ next_id = 1
    /\ file \in FilesFound
    /\ pc = "init"
    /\ platform \in PlatformsOf(file)
    /\ lastOp = [op |-> "none", id |-> 0, found |-> FALSE, save |-> "none",
                 result |-> "ok", from |-> "init"]
    /\ query = <<>>
    /\ results = <<>>
    /\ loaded = Dropped
    /\ issued = <<>>
    /\ editor = Idle

\* the store after a call that ran s' = op(s) and then save_to_file().unwrap()
Mutate_swallow(s, outcome) ==
    /\ entries' = s.entries
    /\ next_id' = s.next_id
    /\ file' = save_to_file(s, file, outcome).file
    /\ pc' = "running"

Mutate(s, outcome) ==
    LET sv == save_to_file(s, file, outcome)
    IN  /\ entries' = s.entries
        /\ next_id' = s.next_id
        /\ file' = sv.file
        /\ pc' = IF sv.ok THEN "running" ELSE "panicked"

SaveText(outcome) == IF outcome = "ok" THEN "ok" ELSE "failed"
Unwrap(outcome) == IF outcome = "ok" THEN "ok" ELSE "panic"

\* DiaryState::add_entry
AddEntryCall(entry, outcome) ==
    /\ pc = "running"
    /\ next_id < MaxId
    /\ Mutate(add_entry(State, entry), outcome)
    /\ lastOp' = Op("add_entry", entries'[Len(entries')].id, FALSE,
                    SaveText(outcome), Unwrap(outcome))
    /\ issued' = IF outcome = "ok"
                 THEN Append(issued, <<entries'[Len(entries')].id,
                                       entries'[Len(entries')].timestamp>>)
                 ELSE issued
    /\ query' = <<>> /\ results' = <<>> /\ loaded' = Dropped
    /\ UNCHANGED <<platform, editor>>

\* DiaryState::update_entry: saves only when the id was found
UpdateEntryCall(updated, outcome) ==
    /\ pc = "running"
    /\ IF find(entries, updated.id) # 0
       THEN /\ Mutate(update_entry(State, updated), outcome)
            /\ lastOp' = Op("update_entry", updated.id, TRUE,
                            SaveText(outcome), Unwrap(outcome))
       ELSE /\ outcome = "ok"
            /\ entries' = update_entry(State, updated).entries
            /\ next_id' = update_entry(State, updated).next_id
            /\ lastOp' = Op("update_entry", updated.id, FALSE, "none", "ok")
            /\ UNCHANGED <<file, pc>>
    /\ query' = <<>> /\ results' = <<>> /\ loaded' = Dropped
    /\ UNCHANGED <<platform, issued, editor>>

\* DiaryState::delete_entry: saves whether or not an entry was removed
DeleteEntryCall(id, outcome) ==
    /\ pc = "running"
    /\ Mutate(delete_entry(State, id), outcome)
    /\ lastOp' = Op("delete_entry", id, find(entries, id) # 0,
                    SaveText(outcome), Unwrap(outcome))
    /\ query' = <<>> /\ results' = <<>> /\ loaded' = Dropped
    /\ UNCHANGED <<platform, issued, editor>>

\* DiaryState::get_entries
GetEntriesCall ==
    /\ pc = "running"
    /\ results' = get_entries(State)
    /\ query' = <<>>
    /\ lastOp' = Op("get_entries", 0, FALSE, "none", "ok")
    /\ loaded' = Dropped
    /\ UNCHANGED <<entries, next_id, file, pc, platform, issued, editor>>

\* DiaryState::search_entries
SearchEntriesCall_keeping(q) ==
    /\ pc = "running"
    /\ results' = search_entries(State, q)
    /\ entries' = results'
    /\ query' = q
    /\ lastOp' = Op("search_entries", 0, FALSE, "none", "ok")
    /\ loaded' = Dropped
    /\ UNCHANGED <<next_id, file, pc, platform, issued, editor>>

SearchEntriesCall(q) ==
    /\ pc = "running"
    /\ results' = search_entries(State, q)
    /\ query' = q
    /\ lastOp' = Op("search_entries", 0, FALSE, "none", "ok")
    /\ loaded' = Dropped
    /\ UNCHANGED <<entries, next_id, file, pc, platform, issued, editor>>

\* DiaryState::save_to_file called by itself: the Result goes to the caller
SaveToFileCall(outcome) ==
    /\ pc = "running"
    /\ file' = save_to_file(State, file, outcome).file
    /\ lastOp' = Op("save_to_file", 0, FALSE, SaveText(outcome),
                    IF outcome = "ok" THEN "ok" ELSE "err")
    /\ query' = <<>> /\ results' = <<>> /\ loaded' = Dropped
    /\ UNCHANGED <<entries, next_id, pc, platform, issued, editor>>

\* DiaryState::load_from_file called by itself: a new DiaryState or an error
LoadFromFileCall(readable) ==
    /\ pc = "running"
    /\ LET r == load_from_file(file, readable, platform)
       IN  /\ loaded' = [ok |-> r.ok, state |-> r.state,
                         saved |-> (lastOp.op = "save_to_file" /\ lastOp.result = "ok")]
           /\ lastOp' = Op("load_from_file", 0, file.exists,
                           IF readable THEN "ok" ELSE "failed",
                           IF r.ok THEN "ok" ELSE "err")
    /\ query' = <<>> /\ results' = <<>>
    /\ UNCHANGED <<entries, next_id, file, pc, platform, issued, editor>>

(***************************************************************************)
(* main: startup and the session loop                                      *)
(***************************************************************************)
\* e.to_string().contains("No such file or directory")
MentionsNoSuchFile(error) == contains(error, <<"No such file or directory">>)

\* main, before the loop: load the store, start a new one when the file is
\* reported missing, give up on any other error
Startup_fresh(readable) ==
    /\ pc \in {"init", "quit", "panicked", "failed", "aborted"}
    /\ entries' = DiaryState_new.entries
    /\ next_id' = DiaryState_new.next_id
    /\ pc' = "running"
    /\ lastOp' = Op("main", 0, file.exists, IF readable THEN "ok" ELSE "failed", "ok")
    /\ query' = <<>> /\ results' = <<>> /\ loaded' = Dropped
    /\ UNCHANGED <<file, platform, issued, editor>>

Startup(readable) ==
    /\ pc \in {"init", "quit", "panicked", "failed", "aborted"}
    /\ LET r == load_from_file(file, readable, platform)
           fresh == ~r.ok /\ MentionsNoSuchFile(r.error)
       IN  /\ entries' = r.state.entries
           /\ next_id' = r.state.next_id
           /\ pc' = IF r.ok \/ fresh THEN "running" ELSE "aborted"
           /\ lastOp' = Op("main", 0, file.exists,
                           IF readable THEN "ok" ELSE "failed",
                           IF r.ok \/ fresh THEN "ok" ELSE "err")
    /\ query' = <<>> /\ results' = <<>> /\ loaded' = Dropped
    /\ UNCHANGED <<file, platform, issued, editor>>

\* Action::Quit
Quit ==
    /\ pc = "running"
    /\ pc' = "quit"
    /\ lastOp' = Op("quit", 0, FALSE, "none", "ok")
    /\ query' = <<>> /\ results' = <<>> /\ loaded' = Dropped
    /\ UNCHANGED <<entries, next_id, file, platform, issued, editor>>

\* the keys typed into the screens
AiOk == [ok |-> TRUE, text |-> <<"a", Newline>>]
AiErr == [ok |-> FALSE, text |-> <<>>]
AiAccent == [ok |-> TRUE, text |-> Utf8("U+00E9")]
\* get_new_entry's inputs: the keys of its content loop, what the assistant
\* answers, the keys of its tags loop, whether its draws show the cursor
NewEntryInputs ==
    {[content_keys |-> <<>>, ai |-> AiOk, tag_keys |-> <<>>, cursor_visible |-> TRUE],
     [content_keys |-> <<"a", "Enter">>, ai |-> AiOk, tag_keys |-> <<"B", ",", " ">>,
      cursor_visible |-> FALSE],
     [content_keys |-> <<"Enter", "Left", "a">>, ai |-> AiErr, tag_keys |-> <<>>,
      cursor_visible |-> TRUE],
     [content_keys |-> <<"*", "b", "Enter">>, ai |-> AiOk, tag_keys |-> <<"B", ",", " ">>,
      cursor_visible |-> TRUE],
     [content_keys |-> <<"*", "b", "Enter">>, ai |-> AiErr, tag_keys |-> <<>>,
      cursor_visible |-> FALSE],
     [content_keys |-> <<"a", "a", "Left", "Delete", "Enter", "Up", "Down", "Right",
                         "Backspace", "Enter">>,
      ai |-> AiOk, tag_keys |-> <<>>, cursor_visible |-> TRUE],
     [content_keys |-> <<"U+00E9", "a">>, ai |-> AiOk, tag_keys |-> <<>>,
      cursor_visible |-> FALSE],
     [content_keys |-> <<"U+00E9">>, ai |-> AiOk, tag_keys |-> <<>>,
      cursor_visible |-> TRUE]}
\* edit_entry's keys: those of its content loop, those of its tags loop
EditKeys ==
    {<< <<>>, <<>> >>,
     << <<"Backspace", "Backspace">>, <<"Other">> >>,
     << <<"Backspace", "Backspace", "a", "Enter">>, <<"B", ",">> >>,
     << <<"Other">>, <<"Backspace", "Backspace", "Backspace">> >>,
     << <<>>, <<" ", "Backspace", "Backspace", "b", "Backspace", "B", ",", " ">> >>}
SelectKeys ==
    {<<"Enter">>, <<"Esc">>, <<"Down", "Enter">>, <<"Down", "Down", "Enter">>,
     <<"Down", "Up", "Other", "Esc">>}
BrowseKeys == {<<"Esc">>, <<"Down", "Enter", "Other", "Esc">>, <<"Up", "Enter", "Esc", "Esc">>}
QueryKeys ==
    {<<"Enter">>, <<"a", "Enter">>, <<"a", "Esc">>, <<"a", "Backspace", "B", "Enter">>,
     <<"b", "b", "Enter">>}

\* usize n - 1 with n = 0 overflows; whether that panics is the build's
\* overflow-checks setting, which nothing else in the program reads
OverflowChecks(n) == IF n = 0 THEN BOOLEAN ELSE {TRUE}

\* the entries the session is let to store
InUniverse(e) == e.content \in Contents /\ e.tags \in TagLists

\* Action::Write: get_new_entry, then add_entry
Write ==
    /\ pc = "running"
    /\ next_id < MaxId
    /\ \E in \in NewEntryInputs, now \in Times :
           LET r == get_new_entry(in.content_keys \o <<"Esc">>, in.tag_keys \o <<"Esc">>,
                                  in.ai, in.cursor_visible, now)
           IN  /\ r.done
               /\ ~r.failed
               /\ ~r.panic
               /\ InUniverse(r.entry)
               /\ \E outcome \in SaveOutcomes : AddEntryCall(r.entry, outcome)

\* Action::Write when get_new_entry returns the assistant's error: main
\* returns it and the process ends
WriteFails ==
    /\ pc = "running"
    /\ \E in \in NewEntryInputs :
           new_entry_content([content |-> <<>>, cursor_position |-> 0],
                             in.content_keys \o <<"Esc">>, in.ai, in.cursor_visible).failed
    /\ pc' = "failed"
    /\ lastOp' = Op("get_new_entry", 0, FALSE, "none", "err")
    /\ query' = <<>> /\ results' = <<>> /\ loaded' = Dropped
    /\ UNCHANGED <<entries, next_id, file, platform, issued, editor>>

\* Action::Write when get_new_entry panics on a cursor_position inside a
\* character
WritePanics ==
    /\ pc = "running"
    /\ \E in \in NewEntryInputs :
           new_entry_content([content |-> <<>>, cursor_position |-> 0],
                             in.content_keys \o <<"Esc">>, in.ai, in.cursor_visible).panic
    /\ pc' = "panicked"
    /\ lastOp' = Op("get_new_entry", 0, FALSE, "none", "panic")
    /\ query' = <<>> /\ results' = <<>> /\ loaded' = Dropped
    /\ UNCHANGED <<entries, next_id, file, platform, issued, editor>>

\* Action::View, behind handle_input's guard: view_entries
View ==
    /\ pc = "running"
    /\ get_entries(State) # <<>>
    /\ \E keys \in BrowseKeys, checked \in OverflowChecks(Len(get_entries(State))) :
           LET b == browse(Len(get_entries(State)), 0, keys, checked)
           IN  /\ b.done
               /\ pc' = IF b.panic THEN "panicked" ELSE "running"
               /\ lastOp' = Op("view_entries", 0, FALSE, "none",
                               IF b.panic THEN "panic" ELSE "ok")
    /\ results' = get_entries(State)
    /\ query' = <<>> /\ loaded' = Dropped
    /\ UNCHANGED <<entries, next_id, file, platform, issued, editor>>

\* Action::Edit, behind handle_input's guard: select_entry_to_edit, then
\* edit_entry and update_entry
Edit ==
    /\ pc = "running"
    /\ get_entries(State) # <<>>
    /\ \E select_keys \in SelectKeys, checked \in OverflowChecks(Len(get_entries(State))) :
           LET sel == select_entry(Len(get_entries(State)), 0, select_keys, checked)
           IN  /\ sel.done
               /\ sel.some
               /\ \E keys \in EditKeys :
                      LET e == edit_entry(get_entries(State)[sel.index + 1],
                                          keys[1] \o <<"Esc">>, keys[2] \o <<"Esc">>)
                      IN  /\ e.done
                          /\ InUniverse(e.entry)
                          /\ \E outcome \in SaveOutcomes :
                                 UpdateEntryCall(e.entry, outcome)

\* Action::Delete, behind handle_input's guard: select_entry_to_delete, then
\* delete_entry
Delete ==
    /\ pc = "running"
    /\ get_entries(State) # <<>>
    /\ \E select_keys \in SelectKeys, checked \in OverflowChecks(Len(get_entries(State))) :
           LET sel == select_entry(Len(get_entries(State)), 0, select_keys, checked)
           IN  /\ sel.done
               /\ sel.some
               /\ \E outcome \in SaveOutcomes :
                      DeleteEntryCall(get_entries(State)[sel.index + 1].id, outcome)

\* Action::Edit and Action::Delete when the selection screen returns None
\* (Esc), or panics on its index
SelectNone ==
    /\ pc = "running"
    /\ get_entries(State) # <<>>
    /\ \E select_keys \in SelectKeys, checked \in OverflowChecks(Len(get_entries(State))) :
           LET sel == select_entry(Len(get_entries(State)), 0, select_keys, checked)
           IN  /\ sel.done
               /\ ~sel.some
               /\ pc' = IF sel.panic THEN "panicked" ELSE "running"
               /\ \E arm \in {"select_entry_to_edit", "select_entry_to_delete"} :
                      lastOp' = Op(arm, 0, FALSE, "none",
                                   IF sel.panic THEN "panic" ELSE "ok")
    /\ query' = <<>> /\ results' = <<>> /\ loaded' = Dropped
    /\ UNCHANGED <<entries, next_id, file, platform, issued, editor>>

\* Action::Search, behind handle_input's guard: get_search_query,
\* search_entries, display_search_results
Search ==
    /\ pc = "running"
    /\ get_entries(State) # <<>>
    /\ \E query_keys \in QueryKeys :
           LET q == get_search_query(<<>>, query_keys)
           IN  /\ q.done
               /\ query' = q.query
               /\ results' = search_entries(State, q.query)
               /\ \E keys \in BrowseKeys, checked \in OverflowChecks(Len(results')) :
                      LET b == browse(Len(results'), 0, keys, checked)
                      IN  /\ b.done
                          /\ pc' = IF b.panic THEN "panicked" ELSE "running"
                          /\ lastOp' = Op("search_entries", 0, FALSE, "none",
                                          IF b.panic THEN "panic" ELSE "ok")
    /\ loaded' = Dropped
    /\ UNCHANGED <<entries, next_id, file, platform, issued, editor>>

NextMain ==
    \/ \E readable \in BOOLEAN : Startup(readable)
    \/ Write
    \/ WriteFails
    \/ WritePanics
    \/ View
    \/ Edit
    \/ Delete
    \/ SelectNone
    \/ Search
    \/ Quit

\* the program: main's loop over the actions handle_input returns
SpecMain == Init /\ [][NextMain]_vars

\* the entries a caller of the store may pass
CallerEntries ==
    {DiaryEntry_new(id, p.content, p.tags, p.now) : id \in Ids, p \in Payloads}
NewEntries ==
    {DiaryEntry_new(id, p.content, p.tags, p.now) : id \in {0, 1}, p \in Payloads}

Next ==
    \/ \E readable \in BOOLEAN : Startup(readable)
    \/ \E e \in NewEntries, o \in SaveOutcomes : AddEntryCall(e, o)
    \/ \E e \in CallerEntries, o \in SaveOutcomes : UpdateEntryCall(e, o)
    \/ \E id \in Ids, o \in SaveOutcomes : DeleteEntryCall(id, o)
    \/ GetEntriesCall
    \/ \E q \in Queries : SearchEntriesCall(q)
    \/ \E o \in SaveOutcomes : SaveToFileCall(o)
    \/ \E readable \in BOOLEAN : LoadFromFileCall(readable)
    \/ Quit

\* the store driven by any caller
Spec == Init /\ [][Next]_vars

(***************************************************************************)
(* get_new_entry's content loop, one key at a time                         *)
(***************************************************************************)
\* the keys typed into the content loop, Esc and '*' apart
ContentKeys ==
    {"a", "U+00E9", "Enter", "Backspace", "Delete", "Left", "Right", "Up", "Down", "Other"}

\* the bytes a key adds to the content
Grows(key) == IF key \in Chars THEN Len(Utf8(key)) ELSE IF key = "Enter" THEN 1 ELSE 0

store_vars == <<entries, next_id, file, pc, platform, lastOp, query, results, loaded, issued>>

\* Action::Write enters get_new_entry: an empty content, cursor_position = 0
GetNewEntry ==
    /\ pc = "running"
    /\ editor.mode = "idle"
    /\ editor' = [Idle EXCEPT !.mode = "content"]
    /\ UNCHANGED store_vars

\* one key of the content loop: its handler, or the panic of its handler
Press(key) ==
    /\ editor.mode = "content"
    /\ Len(editor.content) + Grows(key) <= MaxLen
    /\ LET buf == [content |-> editor.content, cursor_position |-> editor.cursor_position]
       IN  editor' =
               IF key_panics(buf, key)
               THEN [editor EXCEPT !.mode = "panicked", !.key = key,
                                   !.before = editor.cursor_position]
               ELSE [editor EXCEPT
                         !.content = new_entry_key(buf, key).content,
                         !.cursor_position = new_entry_key(buf, key).cursor_position,
                         !.key = key,
                         !.before = editor.cursor_position]
    /\ UNCHANGED store_vars

\* KeyCode::Char('*'): the assistant's text is appended and the cursor put at
\* the end, or the assistant's error ends get_new_entry
Star(ai) ==
    /\ editor.mode = "content"
    /\ Len(editor.content) + Len(ai.text) <= MaxLen
    /\ editor' =
           IF ai.ok
           THEN [editor EXCEPT
                     !.content = push_ai_response(
                                     [content |-> editor.content,
                                      cursor_position |-> editor.cursor_position],
                                     ai.text).content,
                     !.cursor_position = push_ai_response(
                                             [content |-> editor.content,
                                              cursor_position |-> editor.cursor_position],
                                             ai.text).cursor_position,
                     !.key = "*",
                     !.before = editor.cursor_position]
           ELSE [editor EXCEPT !.mode = "failed", !.key = "*",
                               !.before = editor.cursor_position]
    /\ UNCHANGED store_vars

\* KeyCode::Esc: the loop is left
Esc ==
    /\ editor.mode = "content"
    /\ editor' = [editor EXCEPT !.mode = "left", !.key = "Esc",
                                !.before = editor.cursor_position]
    /\ UNCHANGED store_vars

\* the draw at the head of the loop: it panics when it shows the cursor at a
\* cursor_position inside a character, and changes nothing otherwise
Draw(cursor_visible) ==
    /\ editor.mode = "content"
    /\ editor' =
           IF draw_panics([content |-> editor.content,
                           cursor_position |-> editor.cursor_position], cursor_visible)
           THEN [editor EXCEPT !.mode = "panicked", !.key = "draw",
                               !.before = editor.cursor_position]
           ELSE editor
    /\ UNCHANGED store_vars

NextEdit ==
    \/ \E readable \in BOOLEAN : Startup(readable)
    \/ GetNewEntry
    \/ \E key \in ContentKeys : Press(key)
    \/ \E ai \in {AiOk, AiErr, AiAccent} : Star(ai)
    \/ Esc
    \/ \E cursor_visible \in BOOLEAN : Draw(cursor_visible)

InitEdit == Init /\ file = NoFile /\ platform = "unix"

\* one new-entry screen, driven by any keys
SpecEdit == InitEdit /\ [][NextEdit]_vars

(***************************************************************************)
(* The tags loops of get_new_entry and of edit_entry, one key at a time    *)
(***************************************************************************)
\* the keys typed into a tags loop, Esc apart
TagKeys == {"B", ",", " ", "Backspace", "Other"}

\* the entries edit_entry is called with
EditedEntries ==
    {DiaryEntry_new(1, <<"a">>, <<<<>>>>, 1),
     DiaryEntry_new(2, <<>>, <<<<"B">>, <<>>>>, 2),
     DiaryEntry_new(1, <<"a", Newline>>, <<<<"a">>, <<"B">>>>, 2)}

\* Action::Edit enters edit_entry: the entry's content, its tags joined
EditEntry(entry) ==
    /\ pc = "running"
    /\ editor.mode = "idle"
    /\ editor' = [Idle EXCEPT !.mode = "edit", !.content = entry.content,
                             !.cursor_position = Len(entry.content),
                             !.tags = join(entry.tags)]
    /\ UNCHANGED store_vars

\* one key of edit_entry's content loop; cursor_position is not read
EditKey(key) ==
    /\ editor.mode = "edit"
    /\ Len(editor.content) + Grows(key) <= MaxLen
    /\ editor' = [editor EXCEPT !.content = edit_entry_key(editor.content, key),
                                !.key = key]
    /\ UNCHANGED store_vars

\* KeyCode::Esc in edit_entry's content loop: the loop is left
EditEsc ==
    /\ editor.mode = "edit"
    /\ editor' = [editor EXCEPT !.mode = "left", !.key = "Esc",
                                !.before = editor.cursor_position]
    /\ UNCHANGED store_vars

\* one key of a tags loop
TagKey(key) ==
    /\ editor.mode = "left"
    /\ Len(editor.tags) + Grows(key) <= MaxTagLen
    /\ editor' = [editor EXCEPT
                      !.tags = IF key \in Chars THEN push(editor.tags, key)
                               ELSE IF key = "Backspace" THEN pop(editor.tags)
                               ELSE editor.tags,
                      !.key = key]
    /\ UNCHANGED store_vars

\* KeyCode::Esc in a tags loop: the raw string is split and the entry returned
TagsEsc ==
    /\ editor.mode = "left"
    /\ editor' = [editor EXCEPT !.mode = "done", !.key = "Esc",
                                !.tag_list = tag_list(editor.tags)]
    /\ UNCHANGED store_vars

NextTags ==
    \/ \E readable \in BOOLEAN : Startup(readable)
    \/ GetNewEntry
    \/ Esc
    \/ \E entry \in EditedEntries : EditEntry(entry)
    \/ EditEsc
    \/ \E key \in TagKeys : TagKey(key)
    \/ TagsEsc

\* the tags of one new or edited entry, driven by any keys
SpecTags == InitEdit /\ [][NextTags]_vars

NextEditEntry ==
    \/ \E readable \in BOOLEAN : Startup(readable)
    \/ \E entry \in EditedEntries : EditEntry(entry)
    \/ \E key \in ContentKeys : EditKey(key)
    \/ EditEsc

\* the content of one edited entry, driven by any keys
SpecEditEntry == InitEdit /\ [][NextEditEntry]_vars

(***************************************************************************)
(* Properties                                                              *)
(***************************************************************************)
Ids_of(es) == {es[i].id : i \in DOMAIN es}

\* the blob decodes to exactly the store s
FileHolds(s) ==
    /\ file.exists
    /\ Deserialize(file.content).ok
    /\ Deserialize(file.content).state = s

\* the k-th smallest member of a set of positions
Nth(positions, k) ==
    CHOOSE i \in positions : Cardinality({j \in positions : j < i}) = k - 1

\* es restricted to the positions given, order kept
Restrict(es, positions) ==
    [k \in 1..Cardinality(positions) |-> es[Nth(positions, k)]]

\* needle occurs in hay at some position
Occurs(hay, needle) ==
    \E k \in 1..(Len(hay) - Len(needle) + 1) :
        \A i \in 1..Len(needle) : hay[k + i - 1] = needle[i]

\* C1: the ids add_entry has handed out, in the order of the calls that
\* returned, are strictly increasing, across deletes, updates and reloads of
\* the store: no id is handed out twice, and none below an earlier one.
C1_IdsStrictlyIncreasing ==
    /\ \A i, j \in DOMAIN issued : i < j => issued[i][1] < issued[j][1]
    /\ lastOp.op = "add_entry" /\ lastOp.result = "ok" =>
           /\ issued[Len(issued)][1] = lastOp.id
           /\ entries[Len(entries)].id = lastOp.id

\* an add_entry has returned after the entry with an earlier id was deleted
C1_Witness ==
    /\ lastOp.op = "add_entry" /\ lastOp.result = "ok"
    /\ Len(issued) = 2
    /\ issued[1][1] \notin Ids_of(entries)
    /\ issued[2][1] \in Ids_of(entries)

\* C2: the stored ids are pairwise distinct, each is at least 1, and next_id
\* is greater than every stored id.
C2_IdsDistinctBelowNext ==
    /\ \A i, j \in DOMAIN entries : i # j => entries[i].id # entries[j].id
    /\ \A i \in DOMAIN entries : entries[i].id >= 1 /\ entries[i].id < next_id

\* two entries are stored and the last call updated one of them
C2_Witness ==
    /\ Len(entries) = 2
    /\ lastOp.op = "update_entry" /\ lastOp.found /\ lastOp.result = "ok"

\* C3 as stated: whenever add_entry, update_entry or delete_entry has
\* returned normally, the blob holds exactly the in-memory store.
C3_BlobHoldsStoreAfterAnyCall ==
    lastOp.op \in {"add_entry", "update_entry", "delete_entry"} /\ lastOp.result = "ok"
        => FileHolds(State)

\* C3: whenever add_entry, delete_entry, or an update_entry whose id is in
\* the store returns normally, the blob holds exactly the in-memory store;
\* an update_entry whose id is not in the store writes nothing and leaves
\* the blob as it was.
C3_BlobHoldsStoreAfterMutation ==
    [][/\ ( /\ lastOp'.result = "ok"
            /\ \/ lastOp'.op \in {"add_entry", "delete_entry"}
               \/ /\ lastOp'.op = "update_entry"
                  /\ lastOp'.id \in Ids_of(entries) )
          => /\ file'.exists
             /\ Deserialize(file'.content).ok
             /\ Deserialize(file'.content).state = [entries |-> entries', next_id |-> next_id']
       /\ ( lastOp'.op = "update_entry" /\ lastOp'.id \notin Ids_of(entries) )
          => file' = file
      ]_vars

\* an update_entry of a stored id has returned and the blob holds the store
C3_Witness ==
    /\ lastOp.op = "update_entry" /\ lastOp.found /\ lastOp.result = "ok"
    /\ Len(entries) = 2
    /\ FileHolds(State)

\* C4: when the program is started after a session that ended in Quit and
\* the file can be read, the session starts with the store (entries, their
\* order, next_id) the previous session had in memory at Quit.
C4_RestartLoadsStoreAtQuit ==
    [][pc = "quit" /\ lastOp'.op = "main" /\ lastOp'.save = "ok"
           => /\ pc' = "running"
              /\ entries' = entries
              /\ next_id' = next_id
      ]_vars

\* a session started after a Quit with two entries in its store
C4_Witness ==
    /\ lastOp.op = "main" /\ lastOp.from = "quit"
    /\ pc = "running"
    /\ Len(entries) = 2

\* C5: load_from_file right after a save_to_file that succeeded, the file
\* being readable, returns a store equal to the one saved: the same entries
\* in the same order and the same next_id.
C5_SaveLoadRoundTrip ==
    ( /\ lastOp.op = "load_from_file" /\ lastOp.save = "ok"
      /\ loaded.saved )
        => /\ loaded.ok
           /\ lastOp.result = "ok"
           /\ loaded.state.entries = entries
           /\ loaded.state.next_id = next_id

\* load_from_file, called right after a save_to_file that succeeded, has
\* returned a store of two entries, one of them with a line break in its
\* content and one with a tag
C5_Witness ==
    /\ lastOp.op = "load_from_file"
    /\ loaded.saved
    /\ loaded.ok
    /\ Len(loaded.state.entries) = 2
    /\ \E i \in DOMAIN entries : Newline \in Range(loaded.state.entries[i].content)
    /\ \E i \in DOMAIN entries : loaded.state.entries[i].tags[1] # <<>>

\* C6: update_entry with an id that is not in the store changes neither the
\* entries nor next_id, returns normally, and leaves the blob alone.
C6_UpdateAbsentIsNoOp ==
    [][lastOp'.op = "update_entry" /\ lastOp'.id \notin Ids_of(entries)
           => /\ entries' = entries
              /\ next_id' = next_id
              /\ lastOp'.result = "ok"
              /\ pc' = pc
              /\ file' = file
      ]_vars

\* update_entry has been called on a store that holds entries, none of them
\* with the id given
C6_Witness ==
    /\ lastOp.op = "update_entry" /\ ~lastOp.found
    /\ lastOp.id \notin Ids_of(entries)
    /\ Len(entries) = 2

\* C7: delete_entry(id) leaves exactly the entries whose id differs from id,
\* in their previous order, and next_id as it was; with no such entry the
\* entries are unchanged; the call fails only when writing the blob fails,
\* never because the id is missing.
C7_DeleteKeepsTheOthers ==
    [][lastOp'.op = "delete_entry"
           => /\ entries' = Restrict(entries, {i \in DOMAIN entries :
                                                   entries[i].id # lastOp'.id})
              /\ next_id' = next_id
              /\ lastOp'.id \notin Ids_of(entries) => entries' = entries
              /\ lastOp'.result = "ok" <=> lastOp'.save = "ok"
      ]_vars

\* delete_entry has removed the first of two entries
C7_Witness ==
    /\ lastOp.op = "delete_entry" /\ lastOp.found /\ lastOp.result = "ok"
    /\ Len(entries) = 1
    /\ entries[1].id = 2
    /\ lastOp.id = 1

\* C8: search_entries(q) returns, in list order, exactly the entries whose
\* lower-cased content holds the lower-cased q, or one of whose lower-cased
\* tags does; the empty q returns every entry.
C8_SearchReturnsTheMatches ==
    lastOp.op = "search_entries" =>
        /\ results = Restrict(entries,
               {i \in DOMAIN entries :
                   \/ Occurs(to_lowercase(entries[i].content), to_lowercase(query))
                   \/ \E k \in DOMAIN entries[i].tags :
                          Occurs(to_lowercase(entries[i].tags[k]), to_lowercase(query))})
        /\ query = <<>> => results = entries

\* a search for "B" has returned one of two entries, matched by its tag alone
C8_Witness ==
    /\ lastOp.op = "search_entries"
    /\ query = <<"B">>
    /\ Len(entries) = 2
    /\ Len(results) = 1
    /\ results[1].content = <<>>

\* C9: get_entries returns the stored entries with their ids strictly
\* ascending, that is oldest first, whatever updates and deletes came before.
C9_ListedInInsertionOrder ==
    /\ \A i, j \in DOMAIN entries : i < j => entries[i].id < entries[j].id
    /\ lastOp.op = "get_entries" => results = entries

\* get_entries has returned two entries
C9_Witness ==
    /\ lastOp.op = "get_entries"
    /\ Len(results) = 2
    /\ Len(issued) = 2

\* C10: every entry of a running session's store has the id and the
\* timestamp add_entry gave it, and an Edit leaves every entry's id and
\* timestamp, and every other entry altogether, as they were.
C10_IdAndTimestampKept ==
    [][/\ pc' \in {"running", "quit"}
          => \A i \in DOMAIN entries' :
                 <<entries'[i].id, entries'[i].timestamp>> \in Range(issued')
       /\ lastOp'.op = "update_entry"
          => /\ Len(entries') = Len(entries)
             /\ \A i \in DOMAIN entries :
                    /\ entries'[i].id = entries[i].id
                    /\ entries'[i].timestamp = entries[i].timestamp
                    /\ entries[i].id # lastOp'.id => entries'[i] = entries[i]
      ]_vars

\* an Edit has changed the content of the second of two entries
C10_Witness ==
    /\ lastOp.op = "update_entry" /\ lastOp.result = "ok"
    /\ Len(entries) = 2
    /\ lastOp.id = entries[2].id
    /\ entries[2].content = <<>>
    /\ issued[2] = <<entries[2].id, 2>>

\* the file as a document that reads as the store s
Decodes(f, s) ==
    /\ f.exists
    /\ Deserialize(f.content).ok
    /\ Deserialize(f.content).state = s

\* C11: a start that finds no file at diary_entries.json is not an error: the
\* session runs with an empty store whose next_id is 1.
C11_AbsentBlobStartsEmpty ==
    lastOp.op = "main" /\ ~lastOp.found
        => /\ pc = "running"
           /\ lastOp.result = "ok"
           /\ entries = <<>>
           /\ next_id = 1

\* C12: a start whose load fails though the file is there (it cannot be read,
\* or what it holds does not parse) is aborted with an error: no session runs
\* on a substituted empty store.
C12_OtherLoadFailureAborts ==
    ( /\ lastOp.op = "main"
      /\ lastOp.found
      /\ lastOp.save = "failed" \/ ~Deserialize(file.content).ok )
        => /\ pc = "aborted"
           /\ lastOp.result = "err"

\* C13: when the write of the file fails in add_entry, update_entry or
\* delete_entry, the call does not return normally: the failure reaches the
\* caller as a panic that ends the process, and the mutation has been applied
\* to the store in memory (the entry added under next_id, the entry replaced
\* in place, the entry removed).
C13_SaveFailureReachesCaller ==
    [][( /\ lastOp'.op \in {"add_entry", "update_entry", "delete_entry"}
         /\ lastOp'.save = "failed" )
           => /\ lastOp'.result = "panic"
              /\ pc' = "panicked"
              /\ lastOp'.op = "add_entry"
                     => /\ Len(entries') = Len(entries) + 1
                        /\ SubSeq(entries', 1, Len(entries)) = entries
                        /\ entries'[Len(entries')].id = next_id
                        /\ next_id' = next_id + 1
              /\ lastOp'.op = "update_entry"
                     => /\ lastOp'.id \in Ids_of(entries)
                        /\ Len(entries') = Len(entries)
                        /\ \A i \in DOMAIN entries :
                               /\ entries'[i].id = entries[i].id
                               /\ entries[i].id # lastOp'.id => entries'[i] = entries[i]
              /\ lastOp'.op = "delete_entry"
                     => /\ lastOp'.id \notin Ids_of(entries')
                        /\ Len(entries') = Cardinality(Ids_of(entries) \ {lastOp'.id})
      ]_vars

\* a delete_entry whose write failed has panicked with the entry removed in
\* memory and still in the file
C13_Witness ==
    /\ lastOp.op = "delete_entry" /\ lastOp.found
    /\ lastOp.save = "failed"
    /\ lastOp.result = "panic"
    /\ pc = "panicked"
    /\ Len(entries) = 1
    /\ file.exists /\ Deserialize(file.content).ok
    /\ Len(Deserialize(file.content).state.entries) = 2

\* C14: when add_entry, update_entry or delete_entry ends before its save
\* has completed, the file reads either as the complete store from before the
\* call or as the complete store after it.
C14_InterruptedSaveLosesOneChange ==
    [][( /\ lastOp'.op \in {"add_entry", "update_entry", "delete_entry"}
         /\ lastOp'.save = "failed"
         /\ Decodes(file, State) )
           => \/ Decodes(file', State)
              \/ Decodes(file', [entries |-> entries', next_id |-> next_id'])
      ]_vars

\* Lines of a text s, by positions counted from 0: the start of the line
\* that holds position c, and the position of the Newline that ends it
\* (Len(s) for the last line)
LineStart(s, c) ==
    CHOOSE i \in 0..c :
        /\ i = 0 \/ s[i] = Newline
        /\ \A j \in (i + 1)..c : s[j] # Newline

LineEnd(s, c) ==
    CHOOSE i \in c..Len(s) :
        /\ i = Len(s) \/ s[i + 1] = Newline
        /\ \A j \in (c + 1)..i : s[j] # Newline

Column(s, c) == c - LineStart(s, c)
HasPrevLine(s, c) == LineStart(s, c) > 0
PrevLineStart(s, c) == LineStart(s, LineStart(s, c) - 1)
PrevLineLength(s, c) == LineStart(s, c) - 1 - PrevLineStart(s, c)
HasNextLine(s, c) == LineEnd(s, c) < Len(s)
NextLineStart(s, c) == LineEnd(s, c) + 1
NextLineLength(s, c) == LineEnd(s, NextLineStart(s, c)) - NextLineStart(s, c)
Min(a, b) == IF a < b THEN a ELSE b

\* a step that handles key in the content loop
Handles(key) == editor.mode = "content" /\ editor'.key = key

\* C15: in the content loop of get_new_entry, whatever keys were typed and
\* whatever the assistant inserted, 0 <= cursor_position <= len(content).
C15_CursorWithinContent ==
    /\ editor.cursor_position >= 0
    /\ editor.cursor_position <= Len(editor.content)

\* Down has moved the cursor from a column of a longer line to the end of the
\* shorter last line, which is the end of the content
C15_Witness ==
    /\ editor.mode = "content"
    /\ editor.key = "Down"
    /\ Len(editor.content) = MaxLen
    /\ Column(editor.content, editor.before) = 3
    /\ editor.cursor_position = Len(editor.content)
    /\ Column(editor.content, editor.cursor_position) = 1

\* C16: in the content loop of get_new_entry the cursor_position is always on
\* a character boundary of the content, also after characters of more than
\* one byte were typed.
C16_CursorOnCharBoundary ==
    editor.mode = "content" =>
        is_char_boundary(editor.content, editor.cursor_position)

\* C17: Up from a line that has a previous line (the first line of the text
\* included) at least as long as the cursor's column puts the cursor at the
\* same column of the previous line.
C17_UpKeepsColumn ==
    [][( /\ Handles("Up")
         /\ HasPrevLine(editor.content, editor.cursor_position)
         /\ PrevLineLength(editor.content, editor.cursor_position)
                >= Column(editor.content, editor.cursor_position) )
           => /\ editor'.mode = "content"
              /\ editor'.cursor_position =
                     PrevLineStart(editor.content, editor.cursor_position)
                         + Column(editor.content, editor.cursor_position)
      ]_vars

\* C18: Up from a column beyond the length of the previous line puts the
\* cursor at the end of the previous line, on the Newline that ends it.
C18_UpClampsToPreviousLineEnd ==
    [][( /\ Handles("Up")
         /\ HasPrevLine(editor.content, editor.cursor_position)
         /\ PrevLineLength(editor.content, editor.cursor_position)
                < Column(editor.content, editor.cursor_position) )
           => /\ editor'.mode = "content"
              /\ editor'.cursor_position = LineStart(editor.content, editor.cursor_position) - 1
      ]_vars

\* C19: Down from a line that has a next line puts the cursor at the start of
\* the next line plus the smaller of the cursor's column and the next line's
\* length, and leaves the text as it was.
C19_DownKeepsColumnOrClamps ==
    [][( /\ Handles("Down")
         /\ HasNextLine(editor.content, editor.cursor_position) )
           => /\ editor'.mode = "content"
              /\ editor'.content = editor.content
              /\ editor'.cursor_position =
                     NextLineStart(editor.content, editor.cursor_position)
                         + Min(Column(editor.content, editor.cursor_position),
                               NextLineLength(editor.content, editor.cursor_position))
      ]_vars

\* C19 for the cursors that are on a character boundary
C19_DownFromCharBoundary ==
    [][( /\ Handles("Down")
         /\ HasNextLine(editor.content, editor.cursor_position)
         /\ is_char_boundary(editor.content, editor.cursor_position) )
           => /\ editor'.mode = "content"
              /\ editor'.content = editor.content
              /\ editor'.cursor_position =
                     NextLineStart(editor.content, editor.cursor_position)
                         + Min(Column(editor.content, editor.cursor_position),
                               NextLineLength(editor.content, editor.cursor_position))
      ]_vars

\* C20: Up with the cursor on the first line, and Down with the cursor on the
\* last line, leave the text and the cursor as they were.
C20_UpDownAtEdgeChangeNothing ==
    [][( \/ Handles("Up") /\ ~HasPrevLine(editor.content, editor.cursor_position)
         \/ Handles("Down") /\ ~HasNextLine(editor.content, editor.cursor_position) )
           => /\ editor'.mode = "content"
              /\ editor'.content = editor.content
              /\ editor'.cursor_position = editor.cursor_position
      ]_vars

\* C20 for the cursors that are on a character boundary
C20_AtEdgeFromCharBoundary ==
    [][( /\ is_char_boundary(editor.content, editor.cursor_position)
         /\ \/ Handles("Up") /\ ~HasPrevLine(editor.content, editor.cursor_position)
            \/ Handles("Down") /\ ~HasNextLine(editor.content, editor.cursor_position) )
           => /\ editor'.mode = "content"
              /\ editor'.content = editor.content
              /\ editor'.cursor_position = editor.cursor_position
      ]_vars

\* the buffer of the content loop, and whether its cursor is on a boundary
Buffer == [content |-> editor.content, cursor_position |-> editor.cursor_position]
OnCharBoundary == is_char_boundary(editor.content, editor.cursor_position)

\* s with t put in at position p, and s without its positions p+1..p+n
WithInserted(s, p, t) == SubSeq(s, 1, p) \o t \o SubSeq(s, p + 1, Len(s))
WithoutBytes(s, p, n) == SubSeq(s, 1, p) \o SubSeq(s, p + n + 1, Len(s))

\* the bytes a key of the content loop stands for
TypedBytes(key) == IF key = "Enter" THEN <<Newline>> ELSE Utf8(key)
InsertKeys == (Chars \cap ContentKeys) \cup {"Enter"}

\* the length of the character of s that starts at position p
CharLength(s, p) ==
    CHOOSE n \in 1..(Len(s) - p) :
        /\ is_char_boundary(s, p + n)
        /\ \A k \in 1..(n - 1) : ~is_char_boundary(s, p + k)

\* runs of one or two typed characters, each followed by as many Backspaces
Backspaces(n) == [i \in 1..n |-> "Backspace"]
TypedRuns(chars) == {<<c>> : c \in chars} \cup {<<c, d>> : c \in chars, d \in chars}
Restores(run) ==
    LET r == type_keys(Buffer, run \o Backspaces(Len(run)))
    IN  /\ ~r.panic
        /\ r.content = editor.content
        /\ r.cursor_position = editor.cursor_position

\* C21: from any state of the content loop, typing n characters and then n
\* Backspaces gives back the text and the cursor of that state.
C21_InsertThenBackspaceRestores ==
    editor.mode = "content" => \A run \in TypedRuns(InsertKeys) : Restores(run)

\* C21 for characters of one byte typed at a cursor on a character boundary
C21_SingleByteFromCharBoundary ==
    (editor.mode = "content" /\ OnCharBoundary)
        => \A run \in TypedRuns({"a", "Enter"}) : Restores(run)

\* C22: a typed character, or Enter's newline, with the cursor at p goes in
\* at p and the cursor becomes p + 1.
C22_InsertAtCursor ==
    [][\A key \in InsertKeys :
           Handles(key) =>
               /\ editor'.mode = "content"
               /\ editor'.content =
                      WithInserted(editor.content, editor.cursor_position, TypedBytes(key))
               /\ editor'.cursor_position = editor.cursor_position + 1
      ]_vars

\* C22 for a cursor on a character boundary
C22_InsertAtCharBoundary ==
    [][\A key \in InsertKeys :
           (Handles(key) /\ OnCharBoundary) =>
               /\ editor'.mode = "content"
               /\ editor'.content =
                      WithInserted(editor.content, editor.cursor_position, TypedBytes(key))
               /\ editor'.cursor_position = editor.cursor_position + 1
      ]_vars

\* C23: Backspace with the cursor at p > 0 removes the character at p - 1 and
\* puts the cursor at p - 1; at p = 0 it changes nothing.
C23_BackspaceRemovesBefore ==
    [][Handles("Backspace") =>
           /\ editor'.mode = "content"
           /\ IF editor.cursor_position > 0
              THEN /\ is_char_boundary(editor.content, editor.cursor_position - 1)
                   /\ editor'.content =
                          WithoutBytes(editor.content, editor.cursor_position - 1,
                                       CharLength(editor.content, editor.cursor_position - 1))
                   /\ editor'.cursor_position = editor.cursor_position - 1
              ELSE /\ editor'.content = editor.content
                   /\ editor'.cursor_position = editor.cursor_position
      ]_vars

\* C23 when the character before the cursor has one byte
C23_BackspaceOverSingleByte ==
    [][( /\ Handles("Backspace")
         /\ editor.cursor_position > 0
         /\ is_char_boundary(editor.content, editor.cursor_position - 1)
         /\ OnCharBoundary )
           => /\ editor'.mode = "content"
              /\ editor'.content = WithoutBytes(editor.content, editor.cursor_position - 1, 1)
              /\ editor'.cursor_position = editor.cursor_position - 1
      ]_vars

\* C24: Delete with the cursor at p < len(text) removes the character at p
\* and leaves the cursor at p; at p = len(text) it changes nothing.
C24_DeleteRemovesAtCursor ==
    [][Handles("Delete") =>
           /\ editor'.mode = "content"
           /\ editor'.cursor_position = editor.cursor_position
           /\ IF editor.cursor_position < Len(editor.content)
              THEN /\ OnCharBoundary
                   /\ editor'.content =
                          WithoutBytes(editor.content, editor.cursor_position,
                                       CharLength(editor.content, editor.cursor_position))
              ELSE editor'.content = editor.content
      ]_vars

\* C24 for a cursor on a character boundary
C24_DeleteAtCharBoundary ==
    [][(Handles("Delete") /\ OnCharBoundary) =>
           /\ editor'.mode = "content"
           /\ editor'.cursor_position = editor.cursor_position
           /\ editor'.content =
                  IF editor.cursor_position < Len(editor.content)
                  THEN WithoutBytes(editor.content, editor.cursor_position,
                                    CharLength(editor.content, editor.cursor_position))
                  ELSE editor.content
      ]_vars

\* C25: Left and Right move the cursor by exactly one position, Left at 0 and
\* Right at len(text) being no-ops, and never change the text.
C25_LeftRightMoveByOne ==
    [][/\ Handles("Left") =>
              /\ editor'.mode = "content"
              /\ editor'.content = editor.content
              /\ editor'.cursor_position =
                     IF editor.cursor_position = 0 THEN 0 ELSE editor.cursor_position - 1
       /\ Handles("Right") =>
              /\ editor'.mode = "content"
              /\ editor'.content = editor.content
              /\ editor'.cursor_position =
                     IF editor.cursor_position = Len(editor.content)
                     THEN Len(editor.content) ELSE editor.cursor_position + 1
      ]_vars

\* Right was pressed at the end of a text of several lines and left the
\* cursor there
C25_Witness ==
    /\ editor.mode = "content"
    /\ editor.key = "Right"
    /\ editor.before = Len(editor.content)
    /\ editor.cursor_position = Len(editor.content)
    /\ Len(editor.content) >= 3
    /\ Newline \in Range(editor.content)

\* C26: on an empty text with the cursor at 0, Backspace, Delete, Left,
\* Right, Up and Down end without error and leave the text empty and the
\* cursor at 0.
C26_EmptyBufferNoOps ==
    [][( /\ editor.mode = "content"
         /\ editor.content = <<>>
         /\ editor.cursor_position = 0
         /\ editor'.key \in {"Backspace", "Delete", "Left", "Right", "Up", "Down"} )
           => /\ editor'.mode = "content"
              /\ editor'.content = <<>>
              /\ editor'.cursor_position = 0
      ]_vars

\* Left was pressed on an empty text
C26_Witness ==
    /\ editor.mode = "content"
    /\ editor.key = "Left"
    /\ editor.content = <<>>
    /\ editor.before = 0
    /\ editor.cursor_position = 0

\* what the assistant may answer when its call completes
AiAnswers == {AiOk, AiAccent}

\* C27: when the assistant's call completes with the cursor at p, its text r
\* goes in at the cursor: the text becomes text[0..p] + r + text[p..] and the
\* cursor p + len(r) (stated for the cursors on a character boundary, where
\* text[0..p] is a text).
C27_AiTextInsertedAtCursor ==
    [][\A ai \in AiAnswers :
           (Star(ai) /\ OnCharBoundary) =>
               /\ editor'.content =
                      WithInserted(editor.content, editor.cursor_position, ai.text)
               /\ editor'.cursor_position = editor.cursor_position + Len(ai.text)
      ]_vars

\* C27, amended: the assistant's text goes to the end of the text, wherever
\* the cursor is, and the cursor is put at the end.
C27_AiTextAppendedAtEnd ==
    [][\A ai \in AiAnswers :
           Star(ai) =>
               /\ editor'.mode = "content"
               /\ editor'.content = editor.content \o ai.text
               /\ editor'.cursor_position = Len(editor.content) + Len(ai.text)
      ]_vars

\* the assistant has answered while the cursor was before the end of a text
\* of two characters or more
C27_Witness ==
    /\ editor.mode = "content"
    /\ editor.key = "*"
    /\ editor.cursor_position = Len(editor.content)
    /\ \E ai \in AiAnswers :
           /\ Len(editor.content) >= Len(ai.text) + 2
           /\ SubSeq(editor.content, Len(editor.content) - Len(ai.text) + 1,
                     Len(editor.content)) = ai.text
           /\ editor.before < Len(editor.content) - Len(ai.text)

\* C28: when the assistant's call fails, the new-entry session goes on with
\* the text and the cursor it had before the call.
C28_AiFailureKeepsBuffer ==
    [][Star(AiErr) =>
           /\ editor'.mode = "content"
           /\ editor'.content = editor.content
           /\ editor'.cursor_position = editor.cursor_position
      ]_vars

\* the positions of the commas of raw, the k-th of them, and the piece that
\* ends at the k-th comma (at the end of raw for the last piece)
Commas(raw) == {i \in DOMAIN raw : raw[i] = ","}
Comma(raw, k) ==
    IF k = 0 THEN 0
    ELSE IF k > Cardinality(Commas(raw)) THEN Len(raw) + 1
    ELSE CHOOSE i \in Commas(raw) : Cardinality({j \in Commas(raw) : j < i}) = k - 1
Piece(raw, k) == SubSeq(raw, Comma(raw, k - 1) + 1, Comma(raw, k) - 1)

\* s without the whitespace around it
Inked(s) == {i \in DOMAIN s : ~IsWhitespace(s[i])}
Stripped(s) ==
    IF Inked(s) = {} THEN <<>>
    ELSE SubSeq(s, CHOOSE i \in Inked(s) : \A j \in Inked(s) : i <= j,
                   CHOOSE i \in Inked(s) : \A j \in Inked(s) : i >= j)

\* C29: the tags of a created or edited entry are the pieces of the raw tag
\* string between its commas, each without the whitespace around it, empty
\* pieces kept: one tag more than there are commas.
C29_TagsAreTrimmedPieces ==
    editor.mode = "done" =>
        /\ Len(editor.tag_list) = Cardinality(Commas(editor.tags)) + 1
        /\ \A k \in 1..Len(editor.tag_list) :
               editor.tag_list[k] = Stripped(Piece(editor.tags, k))

\* an entry was returned whose raw tag string "B, ," gave the tags "B", "", ""
C29_Witness ==
    /\ editor.mode = "done"
    /\ editor.tags = <<"B", ",", " ", ",">>
    /\ editor.tag_list = <<<<"B">>, <<>>, <<>>>>

\* C30: update_entry with an entry whose id is in the store puts the entry in
\* the place of the stored entry with that id; the other entries, their
\* order, the length of the list and next_id stay as they were.  updated is
\* the entry the step's call was given: the one whose update gives entries'.
C30_UpdateReplacesInPlace ==
    [][\A updated \in CallerEntries :
           ( /\ lastOp'.op = "update_entry"
             /\ lastOp'.id = updated.id
             /\ updated.id \in Ids_of(entries)
             /\ entries' = update_entry(State, updated).entries )
               => /\ Len(entries') = Len(entries)
                  /\ \A i \in DOMAIN entries :
                         entries'[i] = IF entries[i].id = updated.id THEN updated
                                       ELSE entries[i]
                  /\ next_id' = next_id
      ]_vars

\* update_entry has replaced the first of two entries
C30_Witness ==
    /\ lastOp.op = "update_entry" /\ lastOp.found
    /\ Len(entries) = 2
    /\ entries[1].id = lastOp.id
    /\ entries[2].id # lastOp.id

\* C31: get_entries and search_entries change neither the entries, nor
\* next_id, nor the file.
C31_ReadsChangeNothing ==
    [][lastOp'.op \in {"get_entries", "search_entries"}
           => /\ entries' = entries
              /\ next_id' = next_id
              /\ file' = file
      ]_vars

\* search_entries has returned one of two stored entries, both still stored
\* and in the file
C31_Witness ==
    /\ lastOp.op = "search_entries"
    /\ Len(entries) = 2
    /\ Len(results) = 1
    /\ FileHolds(State)

\* runs of at most two of the given commands
CommandRuns(commands) ==
    {<<>>} \cup {<<c>> : c \in commands} \cup {<<c, d>> : c \in commands, d \in commands}

\* the new-entry session's handling of a run, started from the text of the
\* edit session with the cursor at its end, against the edit session's
SameFinalText(run) ==
    LET new == type_keys([content |-> editor.content,
                          cursor_position |-> Len(editor.content)], run)
    IN  /\ ~new.panic
        /\ new.content = edit_content(editor.content, run \o <<"Esc">>).content

\* C32: from the same text with the cursor at its end, the same commands
\* (character, Enter, Backspace, Delete, Left, Right, Up, Down) give the
\* same final text in the edit-entry session as in the new-entry session.
C32_EditSessionEditsLikeNewEntry ==
    editor.mode = "edit" =>
        \A run \in CommandRuns({"a", "Enter", "Backspace", "Delete",
                                "Left", "Right", "Up", "Down"}) :
            SameFinalText(run)

\* C32 for the commands that work at the end of a text of one-byte characters
C32_AppendingCommandsAgree ==
    (editor.mode = "edit" /\ "C3" \notin Range(editor.content)) =>
        \A run \in CommandRuns({"a", "Enter", "Backspace"}) : SameFinalText(run)

\* the list screens, as lastOp names them
StoreListScreens == {"view_entries", "select_entry_to_edit", "select_entry_to_delete"}

\* C33: in every list screen the selected index is a valid index of the list
\* shown whenever Up, Down or Enter is handled: no list screen ends in a panic
\* on len - 1 or on indexing the list.
C33_ListIndexAlwaysValid ==
    lastOp.op \in StoreListScreens \cup {"search_entries"} => lastOp.result # "panic"

\* C33 for the three screens that list the store
C33_StoreListIndexValid ==
    lastOp.op \in StoreListScreens => lastOp.result # "panic"

\* the key that ends the search prompt is Esc, not Enter
EndsByEsc(keys) ==
    \E i \in DOMAIN keys :
        /\ keys[i] = "Esc"
        /\ \A j \in 1..(i - 1) : keys[j] \notin {"Esc", "Enter"}

C34_UntouchedTagsSurviveEdit ==
    editor.mode = "done" => tag_list(join(editor.tag_list)) = editor.tag_list

\* an entry with the tags "B" and "" was edited with its tag field untouched
\* and returned with the same tags
C34_Witness ==
    /\ editor.mode = "done"
    /\ editor.tag_list = <<<<"B">>, <<>>>>
    /\ editor.tags = join(editor.tag_list)
    /\ editor.cursor_position = 0
    /\ editor.content = <<>>

====
